---- MODULE Spec2Model ----
(***************************************************************************)
(* Model of discrete_shocklets: the kernel generators                      *)
(* (kernel_functions.py), the array utilities (utils.py) and the weighting *)
(* function registry (weighting_functions.py).                             *)
(*                                                                         *)
(* A numpy float is a binary64 value: +, -, * and / round to nearest, ties *)
(* to even, overflow to an infinity and underflow through the subnormal    *)
(* values to zero, and NaN and the infinities behave as IEEE 754 has them. *)
(* exp and pow are the C library's, which returns one of the two floats    *)
(* next to the exact value.                                                *)
(***************************************************************************)
EXTENDS Integers, Sequences, FiniteSets, TLC

VARIABLES
    fn,        \* the function being called
    args,      \* its arguments
    res,       \* a kernel function's local res, before its final "if zn"
    ret,       \* the value returned
    raised,    \* the exception raised instead, "" when none
    registry,  \* weighting_functions.registered_weighting_functions
    libm,      \* the C library's rounding of the exp and pow calls the kernel keeps
    pc         \* "call" before the body runs, "return" after; the module load steps

vars == <<fn, args, res, ret, raised, registry, libm, pc>>

-----------------------------------------------------------------------------
(* Bounds of the model *)

MaxL == 5          \* kernel lengths are 2..MaxL
MaxB == 1          \* power-law exponents b are -MaxB..MaxB
MaxStartpt == 2    \* the sampling interval starts at DefaultStartpt..MaxStartpt
MaxA == 2          \* exponential rates a are -MaxA..MaxA
MaxLen == 3        \* arrays given to zero_norm, diff and top_k have at most MaxLen elements
MaxVal == 2        \* their elements are -1..MaxVal
MaxData == 3       \* window_argmaxes gets at most MaxData data points
MaxDataVal == 1    \* with values 0..MaxDataVal
MaxWindows == 2    \* in at most MaxWindows windows
MaxWeightLen == 2  \* arrays given to the weighting functions have at most MaxWeightLen elements
MaxRegistered == 2 \* registrations made after module load
LargeA == 355      \* the large exponential rate tried

(* Program constants *)

DefaultStartpt == 1   \* default of the kernels' startpt parameter
DefaultEndpt == 4     \* default of the kernels' endpt parameter

-----------------------------------------------------------------------------
(* Natural numbers of any size: the limbs in base Base, lowest first, with no
   zero limb at the top; <<>> is 0 *)

Base == 32768
LimbBits == 15

Abs(n) == IF n < 0 THEN -n ELSE n

Sign(n) == IF n < 0 THEN -1 ELSE IF n > 0 THEN 1 ELSE 0

Min2(a, b) == IF a < b THEN a ELSE b
Max2(a, b) == IF a > b THEN a ELSE b

RECURSIVE BNat(_)
BNat(n) == IF n = 0 THEN <<>> ELSE <<n % Base>> \o BNat(n \div Base)

\* limb i of x, 0 outside its limbs
Limb(x, i) == IF i >= 1 /\ i <= Len(x) THEN x[i] ELSE 0

\* the limbs 1..n of x without the zero limbs at the top
RECURSIVE BStripTo(_, _)
BStripTo(x, n) ==
    IF n = 0 THEN <<>>
    ELSE IF x[n] = 0 THEN BStripTo(x, n - 1) ELSE SubSeq(x, 1, n)

BStrip(x) == BStripTo(x, Len(x))

RECURSIVE BCarryFrom(_, _, _, _)

\* t is s[i] with the carry from below added
BCarryStep(s, n, i, t) == <<t % Base>> \o BCarryFrom(s, n, i + 1, t \div Base)

\* the limbs from i up of the number whose limb j in 1..n holds the integer
\* s[j], c the carry into limb i
BCarryFrom(s, n, i, c) == IF i > n THEN BNat(c) ELSE BCarryStep(s, n, i, s[i] + c)

\* the number whose limb j in 1..n holds the integer s[j], plus c
BCarry(s, n, c) == BStrip(BCarryFrom(s, n, 1, c))

BAdd(x, y) ==
    BCarry([i \in 1..Max2(Len(x), Len(y)) |-> Limb(x, i) + Limb(y, i)], Max2(Len(x), Len(y)), 0)

\* x - y for x >= y
BSub(x, y) == BCarry([i \in 1..Len(x) |-> x[i] - Limb(y, i)], Len(x), 0)

RECURSIVE BCmpAt(_, _, _)
BCmpAt(x, y, i) ==
    IF i = 0 THEN 0
    ELSE IF x[i] # y[i] THEN Sign(x[i] - y[i])
    ELSE BCmpAt(x, y, i - 1)

\* -1, 0 or 1 as x is below, equal to or above y
BCmp(x, y) == IF Len(x) # Len(y) THEN Sign(Len(x) - Len(y)) ELSE BCmpAt(x, y, Len(x))

\* x * s + c for a single limb s
BMulSmallC(x, s, c) == BCarry([i \in 1..Len(x) |-> x[i] * s], Len(x), c)

\* what the products x[i] * y[j] for i from lo to hi put into limb k of x * y:
\* the low limbs of those with i + j = k + 1 and the high limbs of those with
\* i + j = k
RECURSIVE BColumn(_, _, _, _, _)
BColumn(x, y, k, i, hi) ==
    IF i > hi THEN 0
    ELSE ((x[i] * Limb(y, k + 1 - i)) % Base) + ((x[i] * Limb(y, k - i)) \div Base)
         + BColumn(x, y, k, i + 1, hi)

BMul(x, y) ==
    IF x = <<>> \/ y = <<>> THEN <<>>
    ELSE BCarry([k \in 1..(Len(x) + Len(y)) |->
                    BColumn(x, y, k, Max2(1, k - Len(y)), Min2(Len(x), k))],
                Len(x) + Len(y), 0)

RECURSIVE BPow(_, _)
BPow(x, n) == IF n = 0 THEN <<1>> ELSE BMul(x, BPow(x, n - 1))

\* x * 2^k
BShl(x, k) ==
    IF x = <<>> THEN <<>>
    ELSE [i \in 1..(k \div LimbBits) |-> 0] \o BMulSmallC(x, 2 ^ (k % LimbBits), 0)

\* x \div 2^k
BShr(x, k) ==
    LET y == IF Len(x) <= k \div LimbBits THEN <<>>
             ELSE SubSeq(x, (k \div LimbBits) + 1, Len(x))
        r == k % LimbBits
    IN  BStrip([i \in 1..Len(y) |->
                  (y[i] \div (2 ^ r))
                  + (IF i < Len(y) THEN (y[i + 1] % (2 ^ r)) * (2 ^ (LimbBits - r)) ELSE 0)])

\* x % 2^k
BLow(x, k) ==
    LET q == k \div LimbBits
    IN  IF Len(x) <= q THEN x
        ELSE BStrip(SubSeq(x, 1, q) \o <<x[q + 1] % (2 ^ (k % LimbBits))>>)

RECURSIVE BitLenSmall(_)
BitLenSmall(n) == IF n = 0 THEN 0 ELSE 1 + BitLenSmall(n \div 2)

BBitLen(x) == IF x = <<>> THEN 0 ELSE LimbBits * (Len(x) - 1) + BitLenSmall(x[Len(x)])

RECURSIVE BTrailingZeros(_)
BTrailingZeros(x) ==
    IF x[1] = 0 THEN LimbBits + BTrailingZeros(Tail(x))
    ELSE IF x[1] % 2 = 0 THEN 1 + BTrailingZeros(<<x[1] \div 2>>)
    ELSE 0

RECURSIVE BDivLimb(_, _, _, _, _)

\* one bit of the long division: r2 is the remainder with the next bit of the
\* dividend brought down
BDivBit(q, r2, d, y, j) ==
    IF BCmp(r2, y) >= 0
    THEN BDivLimb(2 * q + 1, BSub(r2, y), d, y, j - 1)
    ELSE BDivLimb(2 * q, r2, d, y, j - 1)

\* long division by y of one limb d brought down onto the remainder r, bit j
\* and the bits below it still to come, q the quotient bits so far:
\* <<quotient limb, remainder>>
BDivLimb(q, r, d, y, j) ==
    IF j < 0 THEN <<q, r>>
    ELSE BDivBit(q, BMulSmallC(r, 2, (d \div (2 ^ j)) % 2), d, y, j)

RECURSIVE BDivFrom(_, _, _, _, _)

\* l is the <<quotient limb, remainder>> of limb i
BDivStep(x, y, i, q, l) ==
    IF l[1] = 0 /\ q = <<>>
    THEN BDivFrom(x, y, i - 1, <<>>, l[2])
    ELSE BDivFrom(x, y, i - 1, <<l[1]>> \o q, l[2])

\* <<quotient, remainder>> of x by y, limb i of x and the limbs below it still
\* to come, q and r the quotient and the remainder so far
BDivFrom(x, y, i, q, r) ==
    IF i = 0 THEN <<q, r>>
    ELSE BDivStep(x, y, i, q, BDivLimb(0, r, x[i], y, LimbBits - 1))

BDivMod(x, y) == BDivFrom(x, y, Len(x), <<>>, <<>>)

-----------------------------------------------------------------------------
(* Float arithmetic: IEEE 754 binary64.  A finite value is
   sign * mantissa * 2^exponent with an odd mantissa of at most Precision
   bits, an exponent of MinExp or more and a magnitude below 2^MaxExp; the
   values below 2^(MinExp + Precision - 1) are the subnormal ones, which have
   fewer bits.  -0.0 is not told apart from 0.0. *)

Precision == 53
MinExp == -1074
MaxExp == 1024

NaN == [kind |-> "nan", s |-> 0, m |-> <<>>, e |-> 0]
PosInf == [kind |-> "inf", s |-> 1, m |-> <<>>, e |-> 0]
NegInf == [kind |-> "inf", s |-> -1, m |-> <<>>, e |-> 0]
Zero == [kind |-> "fin", s |-> 0, m |-> <<>>, e |-> 0]

IsNaN(a) == a.kind = "nan"
IsInf(a) == a.kind = "inf"
IsFinite(a) == a.kind = "fin"

\* the exact value sgn * mant * 2^ex, the mantissa made odd
Fin(sgn, mant, ex) ==
    IF mant = <<>> \/ sgn = 0 THEN Zero
    ELSE [kind |-> "fin", s |-> sgn, m |-> BShr(mant, BTrailingZeros(mant)),
          e |-> ex + BTrailingZeros(mant)]

\* the finite non-zero a has a magnitude of 2^(Top(a) - 1) or more and below
\* 2^Top(a)
Top(a) == a.e + BBitLen(a.m)

\* overflow: a rounded value v of magnitude 2^MaxExp or more is an infinity
Ranged(v) ==
    IF v.s # 0 /\ Top(v) > MaxExp
    THEN (IF v.s > 0 THEN PosInf ELSE NegInf)
    ELSE v

\* whether rounding adds one to the bits kept q, low the k bits dropped.
\* "nearest" is the rounding of the arithmetic: up above half a unit of q's last
\* place, and at half when q is odd.  "down" and "up" are the float next to the
\* exact value on the side of zero and on the other side.
RoundsUp(dir, q, low, k) ==
    CASE dir = "nearest" ->
           \/ BCmp(low, BShl(<<1>>, k - 1)) > 0
           \/ (BCmp(low, BShl(<<1>>, k - 1)) = 0 /\ Limb(q, 1) % 2 = 1)
      [] dir = "up" -> low # <<>>
      [] dir = "down" -> FALSE

\* sgn * q * 2^ex, q the bits kept after the k bits low were dropped
RoundUp(sgn, q, ex, low, k, dir) ==
    Ranged(Fin(sgn, IF RoundsUp(dir, q, low, k) THEN BAdd(q, <<1>>) ELSE q, ex))

\* sgn * mant * 2^ex with the low k bits of mant rounded away
RoundTo(sgn, mant, ex, k, dir) ==
    IF k <= 0 THEN Ranged(Fin(sgn, mant, ex))
    ELSE RoundUp(sgn, BShr(mant, k), ex + k, BLow(mant, k), k, dir)

\* sgn * mant * 2^ex rounded to a float: to Precision bits, and to fewer where
\* the bits below 2^MinExp have to go as well
RoundDir(sgn, mant, ex, dir) ==
    RoundTo(sgn, mant, ex, Max2(BBitLen(mant) - Precision, MinExp - ex), dir)

Round(sgn, mant, ex) == RoundDir(sgn, mant, ex, "nearest")

\* the float of an integer
F(n) == Fin(Sign(n), BNat(Abs(n)), 0)

FNeg(a) == [a EXCEPT !.s = -a.s]

\* -1, 0 or 1 as the finite a is below, equal to or above the finite b
FCmp(a, b) ==
    IF a.s # b.s THEN Sign(a.s - b.s)
    ELSE IF a.s = 0 THEN 0
    ELSE IF Top(a) # Top(b) THEN a.s * Sign(Top(a) - Top(b))
    ELSE a.s * BCmp(BShl(a.m, a.e - Min2(a.e, b.e)), BShl(b.m, b.e - Min2(a.e, b.e)))

\* sa * x * 2^ex + sb * y * 2^ex rounded, c comparing x with y
FAddAligned(sa, x, sb, y, ex, c) ==
    Round(IF sa = sb \/ c > 0 THEN sa ELSE sb,
          IF sa = sb THEN BAdd(x, y) ELSE IF c > 0 THEN BSub(x, y) ELSE BSub(y, x),
          ex)

\* the sum of two finite non-zero values, ex the smaller exponent
FAddFinite(a, b, ex) ==
    FAddAligned(a.s, BShl(a.m, a.e - ex), b.s, BShl(b.m, b.e - ex), ex,
                BCmp(BShl(a.m, a.e - ex), BShl(b.m, b.e - ex)))

\* a + b; a value below a quarter of a unit in the last place of the other
\* leaves the other as the sum
FAdd(a, b) ==
    IF IsNaN(a) \/ IsNaN(b) THEN NaN
    ELSE IF IsInf(a) THEN (IF IsInf(b) /\ b # a THEN NaN ELSE a)
    ELSE IF IsInf(b) THEN b
    ELSE IF a.s = 0 THEN b
    ELSE IF b.s = 0 THEN a
    ELSE IF Top(a) - Top(b) > Precision + 2 THEN a
    ELSE IF Top(b) - Top(a) > Precision + 2 THEN b
    ELSE FAddFinite(a, b, Min2(a.e, b.e))

FSub(a, b) == FAdd(a, FNeg(b))

FMul(a, b) ==
    IF IsNaN(a) \/ IsNaN(b) THEN NaN
    ELSE IF IsInf(a) \/ IsInf(b)
         THEN (IF a.s = 0 \/ b.s = 0 THEN NaN
               ELSE IF a.s = b.s THEN PosInf ELSE NegInf)
    ELSE Round(a.s * b.s, BMul(a.m, b.m), a.e + b.e)

\* qr the <<quotient, remainder>> of the mantissas: the quotient with one more
\* bit that says whether a remainder was left, rounded
FDivRound(sgn, qr, ex, dir) ==
    RoundDir(sgn, BMulSmallC(qr[1], 2, IF qr[2] = <<>> THEN 0 ELSE 1), ex - 1, dir)

\* the quotient of two finite non-zero values, the dividend's mantissa shifted
\* up by k bits so that the quotient has more than Precision + 2 bits
FDivFinite(a, b, k, dir) ==
    FDivRound(a.s * b.s, BDivMod(BShl(a.m, k), b.m), a.e - b.e - k, dir)

\* a / b rounded as dir says; a and b may be exact values of more than
\* Precision bits
FDivDir(a, b, dir) ==
    IF IsNaN(a) \/ IsNaN(b) THEN NaN
    ELSE IF IsInf(a) THEN (IF IsInf(b) THEN NaN
                           ELSE IF b.s < 0 THEN FNeg(a) ELSE a)
    ELSE IF IsInf(b) THEN Zero
    ELSE IF b.s = 0 THEN (IF a.s = 0 THEN NaN ELSE IF a.s > 0 THEN PosInf ELSE NegInf)
    ELSE IF a.s = 0 THEN Zero
    ELSE FDivFinite(a, b, Max2(0, Precision + 3 + BBitLen(b.m) - BBitLen(a.m)), dir)

FDiv(a, b) == FDivDir(a, b, "nearest")

\* IEEE comparisons: every comparison with NaN is false
FLt(a, b) ==
    /\ ~IsNaN(a) /\ ~IsNaN(b)
    /\ a # b
    /\ IF IsInf(a) THEN a = NegInf
       ELSE IF IsInf(b) THEN b = PosInf
       ELSE FCmp(a, b) < 0

FEq(a, b) == ~IsNaN(a) /\ ~IsNaN(b) /\ a = b

FLe(a, b) == FLt(a, b) \/ FEq(a, b)

-----------------------------------------------------------------------------
(* The C library's pow and exp.  Their results are not correctly rounded: the
   library returns one of the two floats next to the exact value, the same one
   whenever the call is repeated.  libm says of a call whose exact result is
   not a float, and whose result the kernel keeps, which of the two it is: TRUE
   for the one away from zero.  The calls it does not hold are rounded to the
   nearest. *)

LibmRounds(call) ==
    IF call \in DOMAIN libm THEN (IF libm[call] THEN "up" ELSE "down") ELSE "nearest"

\* the exponents for which numpy does not call pow: x ** 1 is x, x ** -1 is
\* 1 / x, x ** 0 is 1 and x ** 2 is x * x
FastPowers == {-1, 0, 1, 2}

\* p the exact power x^|b|: rounded, or its reciprocal rounded
FPowOf(b, p, dir) ==
    IF b > 0 THEN RoundDir(p.s, p.m, p.e, dir) ELSE FDivDir(F(1), p, dir)

\* x ** b for an integer exponent b: the fast powers are one multiplication or
\* division, rounded to the nearest; the others are the library's pow
FPow(x, b) ==
    IF b = 0 THEN F(1)
    ELSE IF IsNaN(x) THEN NaN
    ELSE IF IsInf(x)
         THEN (IF b < 0 THEN Zero
               ELSE IF x.s < 0 /\ b % 2 = 1 THEN NegInf ELSE PosInf)
    ELSE FPowOf(b, Fin(IF b % 2 = 0 THEN Abs(x.s) ELSE x.s, BPow(x.m, Abs(b)), x.e * Abs(b)),
                IF b \in FastPowers THEN "nearest" ELSE LibmRounds(<<"pow", x, b>>))

\* whether x ** b calls pow with an exact result that is not a float
PowInexact(x, b) ==
    /\ b \notin FastPowers
    /\ IsFinite(x) /\ x.s # 0
    /\ IF b > 0 THEN BBitLen(BPow(x.m, b)) > Precision ELSE x.m # <<1>>

-----------------------------------------------------------------------------
(* Array helpers *)

\* the array of the n elements f[1], ..., f[n]
Array(f, n) == SubSeq(f, 1, n)

Reverse(s) == Array([i \in 1..Len(s) |-> s[Len(s) + 1 - i]], Len(s))

VAdd(s, t) == Array([i \in 1..Len(s) |-> FAdd(s[i], t[i])], Len(s))

\* s[lo] + s[lo + 1] + ... + s[n] added in that order to acc
RECURSIVE FSumTo(_, _, _, _)
FSumTo(s, lo, n, acc) ==
    IF n < lo THEN acc ELSE FAdd(FSumTo(s, lo, n - 1, acc), s[n])

\* one of np.sum's eight running sums: s[j], s[j + 8], ... up to position n
RECURSIVE FSumStride(_, _, _)
FSumStride(s, j, n) ==
    IF j + 8 > n THEN s[j] ELSE FAdd(FSumStride(s, j, n - 8), s[n - 8 + j])

\* the running sums lo..hi combined in pairs:
\* ((r1 + r2) + (r3 + r4)) + ((r5 + r6) + (r7 + r8))
RECURSIVE FSumPairs(_, _, _, _)
FSumPairs(s, n, lo, hi) ==
    IF lo = hi THEN FSumStride(s, lo, n)
    ELSE FAdd(FSumPairs(s, n, lo, (lo + hi) \div 2),
              FSumPairs(s, n, ((lo + hi) \div 2) + 1, hi))

\* np.sum of a float array of at most 128 elements: fewer than eight are added
\* one after another to 0.0; otherwise eight running sums over the whole blocks
\* of eight are combined in pairs and the remaining elements are added last
FSum(s) ==
    FSumTo(s, IF Len(s) < 8 THEN 1 ELSE Len(s) - (Len(s) % 8) + 1, Len(s),
           IF Len(s) < 8 THEN F(0) ELSE FSumPairs(s, Len(s) - (Len(s) % 8), 1, 8))

\* Python's builtin min and max: keep the first element, replace it by a later
\* one that compares strictly smaller (larger)
RECURSIVE PyMinTo(_, _)
PyMinTo(s, n) ==
    IF n = 1 THEN s[1]
    ELSE LET m == PyMinTo(s, n - 1) IN IF FLt(s[n], m) THEN s[n] ELSE m

PyMin(s) == PyMinTo(s, Len(s))

RECURSIVE PyMaxTo(_, _)
PyMaxTo(s, n) ==
    IF n = 1 THEN s[1]
    ELSE LET m == PyMaxTo(s, n - 1) IN IF FLt(m, s[n]) THEN s[n] ELSE m

PyMax(s) == PyMaxTo(s, Len(s))

-----------------------------------------------------------------------------
(* utils.zero_norm *)

\* arr - mean
Subtract(arr, mean) == Array([i \in 1..Len(arr) |-> FSub(arr[i], mean)], Len(arr))

\* arr - np.sum(arr) / len(arr)
Center(arr) == Subtract(arr, FDiv(FSum(arr), F(Len(arr))))

\* 2 * (arr - min(arr)) / (max(arr) - min(arr)) - 1
Rescale(arr, mn, mx) ==
    Array([i \in 1..Len(arr) |-> FSub(FDiv(FMul(F(2), FSub(arr[i], mn)), FSub(mx, mn)), F(1))],
          Len(arr))

zero_norm(arr) == Center(Rescale(arr, PyMin(arr), PyMax(arr)))

-----------------------------------------------------------------------------
(* kernel_functions *)

\* np.linspace(start, stop, L): step = (stop - start) / (L - 1), the points
\* arange(L) * step + start, and the last point overwritten by stop
linspace(start, stop, L) ==
    LET step == FDiv(FSub(F(stop), F(start)), F(L - 1))
    IN  Array([i \in 1..L |-> IF i = L /\ L > 1 THEN F(stop)
                              ELSE IF L = 1 THEN F(start)
                              ELSE FAdd(FMul(F(i - 1), step), F(start))], L)

\* res[lo:hi] = 0 on 0-based positions lo <= j < hi
ZeroSlice(s, lo, hi) ==
    Array([i \in 1..Len(s) |-> IF lo <= i - 1 /\ i - 1 < hi THEN F(0) ELSE s[i]], Len(s))

\* the remainders of the long division of x by a single limb n: rs holds, for
\* the limbs of x not yet brought down and the one above them, the remainder
\* left over from the limbs above
RECURSIVE BRemainders(_, _, _)
BRemainders(x, n, rs) ==
    IF Len(rs) > Len(x) THEN rs
    ELSE BRemainders(x, n, <<(rs[1] * Base + x[Len(x) + 1 - Len(rs)]) % n>> \o rs)

\* the quotient limbs from the remainders rs: rs[i + 1] is what is left over
\* from the limbs above limb i
BQuotient(x, n, rs) == BStrip([i \in 1..Len(x) |-> (rs[i + 1] * Base + x[i]) \div n])

\* x \div n for a single limb n
BDivSmall(x, n) == BQuotient(x, n, BRemainders(x, n, <<0>>))

\* exp is computed on numbers with ExpBits binary places, a number v held as
\* the natural number v * 2^ExpBits rounded down; the precision is enough to
\* tell which floats the exponential lies between and which of them is nearer
ExpBits == 150
ExpSmall == 8
ExpTerms == 16

ExpOne == BShl(<<1>>, ExpBits)

\* ln 2 with ExpBits binary places
Ln2 == <<15568, 22432, 29430, 12295, 3790, 24143, 30618, 31289, 1533, 22713>>

\* the product of two fixed-point numbers brought back to ExpBits places
FixMul(x, y) == BShr(BMul(x, y), ExpBits)

\* the magnitude of the finite y with ExpBits binary places
FixAbs(y) ==
    IF y.e + ExpBits >= 0 THEN BShl(y.m, y.e + ExpBits) ELSE BShr(y.m, -(y.e + ExpBits))

\* 1 + r / 1 * (1 + r / 2 * (... (1 + r / n * t))): the series of exp(r) is
\* ExpSeries(r, ExpTerms, 1)
RECURSIVE ExpSeries(_, _, _)
ExpSeries(r, n, t) ==
    IF t = <<>> \/ n = 0 THEN t
    ELSE ExpSeries(r, n - 1, BAdd(ExpOne, BDivSmall(FixMul(r, t), n)))

\* t ^ (2 ^ k)
RECURSIVE ExpSquare(_, _)
ExpSquare(t, k) == IF t = <<>> \/ k = 0 THEN t ELSE ExpSquare(FixMul(t, t), k - 1)

\* exp(r): r is halved k times, which brings it below 2^-ExpSmall, the series
\* is summed and the sum is squared k times
ExpReduced(r, k) == ExpSquare(ExpSeries(BShr(r, k), ExpTerms, ExpOne), k)

\* exp(y) = 2^k * exp(t - k * ln 2) for y = t, and
\* exp(y) = 2^-(k + 2) * exp((k + 2) * ln 2 - t) for y = -t; r is the argument
\* left and ex the power of two
ExpScaled(r, ex, dir) ==
    RoundDir(1, ExpReduced(r, Max2(0, BBitLen(r) - ExpBits + ExpSmall)), ex - ExpBits, dir)

\* exp of the finite non-zero y whose magnitude t is below 2^10; k, found from
\* the first ten binary places of t and of 1 / ln 2, has
\* k * ln 2 <= t < (k + 2) * ln 2
FExpFinite(y, t, k, dir) ==
    IF y.s > 0 THEN ExpScaled(BSub(t, BMulSmallC(Ln2, k, 0)), k, dir)
    ELSE ExpScaled(BSub(BMulSmallC(Ln2, k + 2, 0), t), -(k + 2), dir)

\* whether exp(y) is computed and is not a float: y is not 0 and its magnitude
\* is below 2^10, beyond which the result is inf or 0
ExpInexact(y) == IsFinite(y) /\ y.s # 0 /\ Top(y) <= 10

\* np.exp(y): the library's exp
FExp(y) ==
    IF IsNaN(y) THEN NaN
    ELSE IF IsInf(y) THEN (IF y.s > 0 THEN PosInf ELSE Zero)
    ELSE IF y.s = 0 THEN F(1)
    ELSE IF ~ExpInexact(y) THEN (IF y.s > 0 THEN PosInf ELSE Zero)
    ELSE FExpFinite(y, FixAbs(y),
                    ((Limb(BShr(FixAbs(y), ExpBits - 10), 1)
                      + Base * Limb(BShr(FixAbs(y), ExpBits - 10), 2)) * 1477) \div (2 ^ 20),
                    LibmRounds(<<"exp", y>>))

\* the end of every kernel function: "if zn: return zero_norm(res)", then
\* "return res"
Normalized(res_, zn) == IF zn THEN zero_norm(res_) ELSE res_

\* h + h[::-1]; the source writes the call that gives h twice, with the same
\* arguments, and the two calls return the same array
Mirrored(h) == VAdd(h, Reverse(h))

\* haar with the midpoint rounded up: an odd L puts the extra element in the
\* negative half
haar_res_ceil(L) == [i \in 1..L |-> IF i - 1 < (L + 1) \div 2 THEN F(-1) ELSE F(1)]

haar_res(L) == [i \in 1..L |-> IF i - 1 < L \div 2 THEN F(-1) ELSE F(1)]

haar(L, zn) == Normalized(haar_res(L), zn)

power_law_zero_cusp_res(L, b, zn, startpt, endpt) ==
    LET x == linspace(startpt, endpt, L)
    IN  ZeroSlice([i \in 1..L |-> FPow(x[i], -b)], 0, L \div 2)

power_law_zero_cusp(L, b, zn, startpt, endpt) ==
    Normalized(power_law_zero_cusp_res(L, b, zn, startpt, endpt), zn)

power_law_cusp_res(L, b, zn, startpt, endpt) ==
    Mirrored(power_law_zero_cusp(L, b, zn, startpt, endpt))

power_law_cusp(L, b, zn, startpt, endpt) ==
    Normalized(power_law_cusp_res(L, b, zn, startpt, endpt), zn)

power_zero_cusp_res(L, b, zn, startpt, endpt) ==
    LET x == linspace(startpt, endpt, L)
    IN  ZeroSlice([i \in 1..L |-> FPow(x[i], b)], L \div 2, L)

power_zero_cusp(L, b, zn, startpt, endpt) ==
    Normalized(power_zero_cusp_res(L, b, zn, startpt, endpt), zn)

power_cusp_res(L, b, zn, startpt, endpt) ==
    Mirrored(power_zero_cusp(L, b, zn, startpt, endpt))

power_cusp(L, b, zn, startpt, endpt) ==
    Normalized(power_cusp_res(L, b, zn, startpt, endpt), zn)

\* h[::-1] + c + h
Superposed(h, c) == VAdd(VAdd(Reverse(h), c), h)

pitchfork_res(L, b, zn, startpt, endpt) ==
    Superposed(power_zero_cusp(L, 2 * b, zn, startpt, endpt),
            power_cusp(L, b, zn, startpt, endpt))

pitchfork(L, b, zn, startpt, endpt) ==
    Normalized(pitchfork_res(L, b, zn, startpt, endpt), zn)

exp_zero_cusp_res(L, a, zn, startpt, endpt) ==
    LET x == linspace(startpt, endpt, L)
    IN  ZeroSlice([i \in 1..L |-> FExp(FMul(F(a), x[i]))], L \div 2, L)

exp_zero_cusp(L, a, zn, startpt, endpt) ==
    Normalized(exp_zero_cusp_res(L, a, zn, startpt, endpt), zn)

exp_cusp_res(L, a, zn, startpt, endpt) ==
    Mirrored(exp_zero_cusp(L, a, zn, startpt, endpt))

exp_cusp(L, a, zn, startpt, endpt) ==
    Normalized(exp_cusp_res(L, a, zn, startpt, endpt), zn)

-----------------------------------------------------------------------------
(* utils.diff *)

\* diff whose ghost element is 0 instead of sequence[0]
diff_zero_ghost(sequence, ghost) ==
    LET x == IF ghost THEN <<F(0)>> \o sequence ELSE sequence
    IN  [n \in 1..(Len(x) - 1) |-> FSub(x[n + 1], x[n])]

diff(sequence, ghost) ==
    IF ~ghost
    THEN LET x == sequence
         IN  [n \in 1..(Len(x) - 1) |-> FSub(x[n + 1], x[n])]
    ELSE LET x == <<sequence[1]>> \o sequence
         IN  [n \in 1..(Len(x) - 1) |-> FSub(x[n + 1], x[n])]

\* sequence[0] of an empty sequence
diff_raises(sequence, ghost) ==
    IF ghost /\ Len(sequence) = 0 THEN "IndexError" ELSE ""

-----------------------------------------------------------------------------
(* utils.top_k *)

\* s[start:], Python's slice from a possibly negative start
PySliceFrom(s, start) ==
    LET n == Len(s)
        st == IF start < 0 THEN Max2(start + n, 0) ELSE Min2(start, n)
    IN  SubSeq(s, st + 1, n)

\* np.argpartition normalises a negative kth by adding the length
NormKth(n, kth) == IF kth < 0 THEN kth + n ELSE kth

\* np.argpartition(a, kth): some ordering of the positions in which the element
\* at kth is the one a sort would put there, no larger element before it and no
\* smaller one after it.  Which such ordering is returned is up to the
\* selection algorithm, so every one of them is a possible result.
ArgPartition(a, kth) ==
    LET n == Len(a)
        q == NormKth(n, kth) + 1
    IN  {p \in Permutations(1..n) :
            /\ \A i \in 1..(q - 1) : a[p[i]] <= a[p[q]]
            /\ \A i \in (q + 1)..n : a[p[i]] >= a[p[q]]}

\* sorted(top, key=lambda t: t[1], reverse=True): stable, equal keys keep their order
InsertDesc(sorted, e) ==
    LET before == {i \in 1..Len(sorted) : sorted[i][2] >= e[2]}
        m == Cardinality(before)
    IN  SubSeq(sorted, 1, m) \o <<e>> \o SubSeq(sorted, m + 1, Len(sorted))

RECURSIVE SortedDescTo(_, _)
SortedDescTo(top, n) ==
    IF n = 0 THEN <<>> ELSE InsertDesc(SortedDescTo(top, n - 1), top[n])

SortedDesc(top) == SortedDescTo(top, Len(top))

\* top_k returning its pairs smallest first
top_k_ascending(indices, words, k, part) ==
    LET inds == PySliceFrom(part, -k)
        top == [j \in 1..Len(inds) |-> <<words[inds[j]], indices[inds[j]]>>]
    IN  Reverse(SortedDesc(top))

\* top_k, given the ordering part that np.argpartition returned
top_k(indices, words, k, part) ==
    LET inds == PySliceFrom(part, -k)
        top == [j \in 1..Len(inds) |-> <<words[inds[j]], indices[inds[j]]>>]
    IN  SortedDesc(top)

\* np.argpartition(indices, -k) with kth out of bounds
top_k_raises(indices, words, k) ==
    IF NormKth(Len(indices), -k) < 0 \/ NormKth(Len(indices), -k) >= Len(indices)
    THEN "ValueError" ELSE ""

-----------------------------------------------------------------------------
(* utils.window_argmaxes; windows hold 0-based indices into data *)

\* data[window]
Take(data, window) == [i \in 1..Len(window) |-> data[window[i] + 1]]

\* np.argmax: the first position of the maximum, 0-based
ArgMax(seg) ==
    (CHOOSE i \in 1..Len(seg) :
        /\ \A j \in 1..Len(seg) : seg[j] <= seg[i]
        /\ \A j \in 1..(i - 1) : seg[j] < seg[i]) - 1

\* window_argmaxes appending np.argmax's position inside the window
RECURSIVE window_argmaxes_local(_, _, _)
window_argmaxes_local(windows, data, n) ==
    IF n = 0 THEN <<>>
    ELSE Append(window_argmaxes_local(windows, data, n - 1),
                ArgMax(Take(data, windows[n])))

RECURSIVE window_argmaxes_to(_, _, _)
window_argmaxes_to(windows, data, n) ==
    IF n = 0 THEN <<>>
    ELSE Append(window_argmaxes_to(windows, data, n - 1),
                windows[n][ArgMax(Take(data, windows[n])) + 1])

window_argmaxes(windows, data) == window_argmaxes_to(windows, data, Len(windows))

\* np.argmax of an empty segment
window_argmaxes_raises(windows, data) ==
    IF \E j \in 1..Len(windows) : Len(windows[j]) = 0 THEN "ValueError" ELSE ""

-----------------------------------------------------------------------------
(* weighting_functions *)

\* registration that inserts at the front
register_weighting_function_front(registered, weighting_function) ==
    [registered_weighting_functions |-> <<weighting_function>> \o registered,
     ret |-> weighting_function]

register_weighting_function(registered, weighting_function) ==
    [registered_weighting_functions |-> Append(registered, weighting_function),
     ret |-> weighting_function]

RECURSIVE IntMaxTo(_, _)
IntMaxTo(s, n) == IF n = 1 THEN s[1] ELSE Max2(IntMaxTo(s, n - 1), s[n])
RECURSIVE IntMinTo(_, _)
IntMinTo(s, n) == IF n = 1 THEN s[1] ELSE Min2(IntMinTo(s, n - 1), s[n])

\* np.max, np.min
NpMax(s) == IntMaxTo(s, Len(s))
NpMin(s) == IntMinTo(s, Len(s))

max_change(arr) == NpMax(arr) - NpMin(arr)

\* np.log10 where it is exact
PowersOfTen == {1, 10, 100, 1000}
Log10(v) == CASE v = 1 -> 0 [] v = 10 -> 1 [] v = 100 -> 2 [] v = 1000 -> 3

max_rel_change_shift(arr, neg) ==
    IF neg THEN [i \in 1..Len(arr) |-> arr[i] - NpMin(arr) + 1] ELSE arr

max_rel_change(arr, neg) ==
    LET shifted == max_rel_change_shift(arr, neg)
        logs == [i \in 1..Len(arr) |-> Log10(shifted[i])]
        logret == [i \in 1..(Len(arr) - 1) |-> logs[i + 1] - logs[i]]
    IN  NpMax(logret) - NpMin(logret)

\* np.max of the empty difference of a one-element array
max_rel_change_raises(arr, neg) == IF Len(arr) < 2 THEN "ValueError" ELSE ""

-----------------------------------------------------------------------------
(* The calls the model makes *)

\* the word lists tried with n indicator values: all different, all the same
WordLists(n) == {SubSeq(<<"a", "b", "c", "d", "e", "f">>, 1, n), [i \in 1..n |-> "a"]}

\* a window: indices of data in increasing order, contiguous or not, or empty
WindowsOver(n) ==
    UNION {{w \in [1..m -> 0..(n - 1)] : \A i \in 1..(m - 1) : w[i] < w[i + 1]} :
           m \in 0..n}

WeightValues == {1, 10, 100}

LoadedRegistry == <<"max_change", "max_rel_change">>

PowerNames == {"power_law_zero_cusp", "power_law_cusp", "power_zero_cusp",
               "power_cusp", "pitchfork"}

ExpNames == {"exp_zero_cusp", "exp_cusp"}

\* the calls x[i] ** b of pow, for the positions i in kept, whose result is
\* not exact
PowCalls(L, b, startpt, endpt, kept) ==
    LET x == linspace(startpt, endpt, L)
    IN  {<<"pow", x[i], b>> : i \in {j \in kept : PowInexact(x[j], b)}}

\* the library calls of f(a) that libm decides: the kernels keep the positions
\* that their res[...] = 0 does not overwrite
LibmCalls(f, a) ==
    CASE f \in {"power_law_zero_cusp", "power_law_cusp"} ->
           PowCalls(a.L, -a.b, a.startpt, a.endpt, ((a.L \div 2) + 1)..a.L)
      [] f \in {"power_zero_cusp", "power_cusp"} ->
           PowCalls(a.L, a.b, a.startpt, a.endpt, 1..(a.L \div 2))
      [] f = "pitchfork" ->
           PowCalls(a.L, 2 * a.b, a.startpt, a.endpt, 1..(a.L \div 2))
               \cup PowCalls(a.L, a.b, a.startpt, a.endpt, 1..(a.L \div 2))
      [] f \in ExpNames ->
           LET x == linspace(a.startpt, a.endpt, a.L)
           IN  {<<"exp", FMul(F(a.a), x[i])>> :
                   i \in {j \in 1..(a.L \div 2) : ExpInexact(FMul(F(a.a), x[j]))}}
      [] OTHER -> {}

Call(f, a) ==
    /\ fn = f
    /\ args = a
    /\ res = <<>>
    /\ ret = <<>>
    /\ raised = ""
    /\ registry = LoadedRegistry
    /\ libm \in [LibmCalls(f, a) -> BOOLEAN]
    /\ pc = "call"

Return(r, v, e) ==
    /\ res' = r
    /\ ret' = v
    /\ raised' = e
    /\ pc' = "return"
    /\ UNCHANGED <<fn, args, registry, libm>>

-----------------------------------------------------------------------------
(* Kernels and zero_norm *)

InitHaar == \E L \in 2..MaxL, zn \in BOOLEAN : Call("haar", [L |-> L, zn |-> zn])

\* the sampling intervals tried: the default [1, 4] and the same width further up
InitPower ==
    \E f \in PowerNames, L \in 2..MaxL, b \in (-MaxB)..MaxB, zn \in BOOLEAN :
        \E startpt \in DefaultStartpt..MaxStartpt :
            Call(f, [L |-> L, b |-> b, zn |-> zn, startpt |-> startpt,
                     endpt |-> startpt + (DefaultEndpt - DefaultStartpt)])

\* the exponential kernels are sampled on the default interval; the rates tried
\* are the small ones and one for which exp(a * x) overflows inside the interval
InitExp ==
    \E f \in ExpNames, L \in 2..MaxL, a \in ((-MaxA)..MaxA) \cup {LargeA}, zn \in BOOLEAN :
        Call(f, [L |-> L, a |-> a, zn |-> zn,
                 startpt |-> DefaultStartpt, endpt |-> DefaultEndpt])

\* the elements tried are small integers and 2^(MaxExp - 1), the largest power
\* of two that is a float, whose double overflows
InitZeroNorm ==
    \E n \in 1..MaxLen :
        \E arr \in [1..n -> {F(v) : v \in (-1)..MaxVal} \cup {Fin(1, <<1>>, MaxExp - 1)}] :
            Call("zero_norm", [arr |-> arr])

InitKernels == InitHaar \/ InitPower \/ InitExp \/ InitZeroNorm

ZeroNorm ==
    /\ pc = "call" /\ fn = "zero_norm"
    /\ Return(<<>>, zero_norm(args.arr), "")

Haar ==
    /\ pc = "call" /\ fn = "haar"
    /\ Return(haar_res(args.L), Normalized(res', args.zn), "")

PowerLawZeroCusp ==
    /\ pc = "call" /\ fn = "power_law_zero_cusp"
    /\ Return(power_law_zero_cusp_res(args.L, args.b, args.zn, args.startpt, args.endpt),
              Normalized(res', args.zn), "")

PowerLawCusp ==
    /\ pc = "call" /\ fn = "power_law_cusp"
    /\ Return(power_law_cusp_res(args.L, args.b, args.zn, args.startpt, args.endpt),
              Normalized(res', args.zn), "")

PowerZeroCusp ==
    /\ pc = "call" /\ fn = "power_zero_cusp"
    /\ Return(power_zero_cusp_res(args.L, args.b, args.zn, args.startpt, args.endpt),
              Normalized(res', args.zn), "")

PowerCusp ==
    /\ pc = "call" /\ fn = "power_cusp"
    /\ Return(power_cusp_res(args.L, args.b, args.zn, args.startpt, args.endpt),
              Normalized(res', args.zn), "")

Pitchfork ==
    /\ pc = "call" /\ fn = "pitchfork"
    /\ Return(pitchfork_res(args.L, args.b, args.zn, args.startpt, args.endpt),
              Normalized(res', args.zn), "")

ExpZeroCusp ==
    /\ pc = "call" /\ fn = "exp_zero_cusp"
    /\ Return(exp_zero_cusp_res(args.L, args.a, args.zn, args.startpt, args.endpt),
              Normalized(res', args.zn), "")

ExpCusp ==
    /\ pc = "call" /\ fn = "exp_cusp"
    /\ Return(exp_cusp_res(args.L, args.a, args.zn, args.startpt, args.endpt),
              Normalized(res', args.zn), "")

NextKernels ==
    \/ ZeroNorm
    \/ Haar
    \/ PowerLawZeroCusp
    \/ PowerLawCusp
    \/ PowerZeroCusp
    \/ PowerCusp
    \/ Pitchfork
    \/ ExpZeroCusp
    \/ ExpCusp

SpecKernels == InitKernels /\ [][NextKernels]_vars

-----------------------------------------------------------------------------
(* diff, top_k, window_argmaxes *)

InitDiff ==
    \E n \in 0..MaxLen : \E s \in [1..n -> (-1)..MaxVal] : \E ghost \in BOOLEAN :
        Call("diff", [sequence |-> [i \in 1..n |-> F(s[i])], ghost |-> ghost])

InitTopK ==
    \E n \in 1..MaxLen : \E s \in [1..n -> (-1)..MaxVal] :
        \E w \in WordLists(n), k \in (-(MaxLen + 1))..(MaxLen + 1) :
            Call("top_k", [indices |-> s, words |-> w, k |-> k])

InitWindowArgmaxes ==
    \E n \in 1..MaxData : \E d \in [1..n -> 0..MaxDataVal] :
        \E m \in 0..MaxWindows : \E ws \in [1..m -> WindowsOver(n)] :
            Call("window_argmaxes", [windows |-> ws, data |-> d])

InitUtils == InitDiff \/ InitTopK \/ InitWindowArgmaxes

Diff ==
    /\ pc = "call" /\ fn = "diff"
    /\ IF diff_raises(args.sequence, args.ghost) # ""
       THEN Return(<<>>, <<>>, diff_raises(args.sequence, args.ghost))
       ELSE Return(<<>>, diff(args.sequence, args.ghost), "")

TopK ==
    /\ pc = "call" /\ fn = "top_k"
    /\ IF top_k_raises(args.indices, args.words, args.k) # ""
       THEN Return(<<>>, <<>>, top_k_raises(args.indices, args.words, args.k))
       ELSE \E part \in ArgPartition(args.indices, -args.k) :
                Return(<<>>, top_k(args.indices, args.words, args.k, part), "")

WindowArgmaxes ==
    /\ pc = "call" /\ fn = "window_argmaxes"
    /\ IF window_argmaxes_raises(args.windows, args.data) # ""
       THEN Return(<<>>, <<>>, window_argmaxes_raises(args.windows, args.data))
       ELSE Return(<<>>, window_argmaxes(args.windows, args.data), "")

NextUtils ==
    \/ Diff
    \/ TopK
    \/ WindowArgmaxes

SpecUtils == InitUtils /\ [][NextUtils]_vars

-----------------------------------------------------------------------------
(* The weighting function registry: module load, then registrations and calls *)

InitRegistry ==
    /\ fn = ""
    /\ args = <<>>
    /\ res = <<>>
    /\ ret = <<>>
    /\ raised = ""
    /\ registry = <<>>
    /\ libm = <<>>
    /\ pc = "def_max_change"

Registered(f, next) ==
    /\ fn' = "register_weighting_function"
    /\ args' = [weighting_function |-> f]
    /\ registry' = register_weighting_function(registry, f).registered_weighting_functions
    /\ ret' = register_weighting_function(registry, f).ret
    /\ raised' = ""
    /\ pc' = next
    /\ UNCHANGED <<res, libm>>

\* @register_weighting_function on def max_change
DefMaxChange ==
    /\ pc = "def_max_change"
    /\ Registered("max_change", "def_max_rel_change")

\* @register_weighting_function on def max_rel_change
DefMaxRelChange ==
    /\ pc = "def_max_rel_change"
    /\ Registered("max_rel_change", "loaded")

Register ==
    /\ pc = "loaded"
    /\ Len(registry) < Len(LoadedRegistry) + MaxRegistered
    /\ \E f \in {"max_change", "max_rel_change", "user_weighting"} : Registered(f, "loaded")

MaxChange ==
    /\ pc = "loaded"
    /\ \E n \in 1..MaxWeightLen : \E arr \in [1..n -> WeightValues] :
        /\ fn' = "max_change"
        /\ args' = [arr |-> arr]
        /\ ret' = max_change(arr)
        /\ raised' = ""
        /\ UNCHANGED <<res, registry, libm, pc>>

MaxRelChange ==
    /\ pc = "loaded"
    /\ \E n \in 1..MaxWeightLen : \E arr \in [1..n -> WeightValues], neg \in BOOLEAN :
        /\ \A i \in 1..Len(arr) : max_rel_change_shift(arr, neg)[i] \in PowersOfTen
        /\ fn' = "max_rel_change"
        /\ args' = [arr |-> arr, neg |-> neg]
        /\ IF max_rel_change_raises(arr, neg) # ""
           THEN ret' = <<>> /\ raised' = max_rel_change_raises(arr, neg)
           ELSE ret' = max_rel_change(arr, neg) /\ raised' = ""
        /\ UNCHANGED <<res, registry, libm, pc>>

NextRegistry ==
    \/ DefMaxChange
    \/ DefMaxRelChange
    \/ Register
    \/ MaxChange
    \/ MaxRelChange

SpecRegistry == InitRegistry /\ [][NextRegistry]_vars

-----------------------------------------------------------------------------
(* Everything together *)

Init == InitKernels \/ InitUtils \/ InitRegistry

Next == NextKernels \/ NextUtils \/ NextRegistry

Spec == Init /\ [][Next]_vars

-----------------------------------------------------------------------------
(* Properties *)

KernelNames == {"haar"} \cup PowerNames \cup ExpNames

ComposedNames == {"power_law_cusp", "power_cusp", "pitchfork", "exp_cusp"}

NormalizedKernel == pc = "return" /\ fn \in KernelNames /\ args.zn

NonConstant(arr) == FLt(PyMin(arr), PyMax(arr))

InClosedUnit(v) == FLe(F(-1), v) /\ FLe(v, F(1))

\* C1: every value of a kernel made with zn=True, and every value zero_norm
\* returns for a non-constant array, lies in [-1, 1].
C1_ValuesInUnitRange ==
    (NormalizedKernel \/ (pc = "return" /\ fn = "zero_norm" /\ NonConstant(args.arr)))
        => \A i \in 1..Len(ret) : InClosedUnit(ret[i])

FAbs(a) == [a EXCEPT !.s = Abs(a.s)]

\* C2: every kernel made with zn=True sums to zero, to the tolerance the
\* specification gives for the float sum: abs(sum(kernel)) <= 1e-6 * L.
C2_SumsToZero ==
    NormalizedKernel => FLe(FMul(FAbs(FSum(ret)), F(1000000)), F(args.L))

\* C3: haar with zn=False is -1 on the first L//2 entries and +1 on the rest;
\* with zn=True the first L//2 entries are equal, the rest are equal, and each
\* of the first is strictly below each of the rest.
C3_HaarStep ==
    (pc = "return" /\ fn = "haar") =>
        LET L == args.L
            h == L \div 2
        IN  /\ Len(ret) = L
            /\ IF ~args.zn
               THEN \A i \in 1..L : ret[i] = (IF i <= h THEN F(-1) ELSE F(1))
               ELSE /\ \A i, j \in 1..h : FEq(ret[i], ret[j])
                    /\ \A i, j \in (h + 1)..L : FEq(ret[i], ret[j])
                    /\ \A i \in 1..h : \A j \in (h + 1)..L : FLt(ret[i], ret[j])

\* haar of an odd length has returned a normalized step
C3_Witness ==
    /\ pc = "return" /\ fn = "haar" /\ args.L = 5 /\ args.zn
    /\ FLt(ret[2], ret[3]) /\ FEq(ret[3], ret[5])

ValidK == fn = "top_k" /\ 1 <= args.k /\ args.k <= Len(args.indices)

\* C4: for 1 <= k <= len(indices), top_k returns k pairs (words[i], indices[i])
\* of k different positions i, holding the k largest values, largest first.
C4_TopKLargestFirst ==
    (pc = "return" /\ ValidK) =>
        LET n == Len(args.indices)
            k == args.k
        IN  /\ raised = ""
            /\ Len(ret) = k
            /\ \A j \in 1..(k - 1) : ret[j][2] >= ret[j + 1][2]
            /\ \E pos \in [1..k -> 1..n] :
                /\ \A i, j \in 1..k : i # j => pos[i] # pos[j]
                /\ \A j \in 1..k : ret[j] = <<args.words[pos[j]], args.indices[pos[j]]>>
                /\ \A i \in (1..n) \ {pos[j] : j \in 1..k} :
                       \A j \in 1..k : args.indices[i] <= args.indices[pos[j]]

\* top_k has returned two of three values, the values not all equal
C4_Witness ==
    /\ pc = "return" /\ ValidK /\ args.k = 2 /\ Len(args.indices) = 3
    /\ Len(ret) = 2 /\ ret[1][2] > ret[2][2]
    /\ \E i \in 1..3 : args.indices[i] < ret[2][2]

\* C5: top_k raises whenever k <= 0 or k > len(indices).
C5_RejectsBadK ==
    (pc = "return" /\ fn = "top_k" /\ (args.k <= 0 \/ args.k > Len(args.indices)))
        => raised # "" /\ ret = <<>>

Elems(w) == {w[i] : i \in 1..Len(w)}

\* C6: window_argmaxes returns, for each window in order, a member of that
\* window at which data is largest over the window; the entry for a window is
\* what the window alone would give.
C6_WindowArgmax ==
    (pc = "return" /\ fn = "window_argmaxes"
        /\ \A j \in 1..Len(args.windows) : Len(args.windows[j]) > 0) =>
        /\ raised = ""
        /\ Len(ret) = Len(args.windows)
        /\ \A j \in 1..Len(ret) :
            /\ ret[j] \in Elems(args.windows[j])
            /\ \A w \in Elems(args.windows[j]) : args.data[w + 1] <= args.data[ret[j] + 1]
            /\ <<ret[j]>> = window_argmaxes(<<args.windows[j]>>, args.data)

\* two overlapping windows, the first not contiguous, with different results
C6_Witness ==
    /\ pc = "return" /\ fn = "window_argmaxes"
    /\ args.windows = <<<<0, 2>>, <<1, 2>>>>
    /\ ret = <<2, 1>>

\* the integer a float of small magnitude stands for
IntOf(a) == a.s * Limb(a.m, 1) * (2 ^ a.e)

\* C7: on a non-empty sequence, diff with ghost=True returns len(seq) values, 0
\* first and then seq[n] - seq[n-1]; with ghost=False it returns the len(seq) - 1
\* values seq[n] - seq[n-1]; the result on a prefix is a prefix of the result.
C7_BackwardDifference ==
    (pc = "return" /\ fn = "diff" /\ Len(args.sequence) > 0) =>
        LET seq == args.sequence
            n == Len(seq)
            off == IF args.ghost THEN 0 ELSE 1
        IN  /\ raised = ""
            /\ Len(ret) = n - off
            /\ args.ghost => ret[1] = F(0)
            /\ \A i \in 2..n : ret[i - off] = F(IntOf(seq[i]) - IntOf(seq[i - 1]))
            /\ \A m \in 1..n :
                   diff(SubSeq(seq, 1, m), args.ghost) = SubSeq(ret, 1, m - off)

\* diff with the ghost element has returned three values, the second not 0
C7_Witness ==
    /\ pc = "return" /\ fn = "diff" /\ args.ghost /\ Len(args.sequence) = 3
    /\ args.sequence[1] # F(0)
    /\ ret[1] = F(0) /\ ret[2] # F(0)

\* C8: the registry only grows at its end: a registration appends the function
\* given and returns it, a weighting function call leaves the registry alone,
\* and module load leaves exactly max_change, max_rel_change.
C8_AppendOnly ==
    /\ [][IF fn' = "register_weighting_function"
          THEN /\ registry' = registry \o <<args'.weighting_function>>
               /\ ret' = args'.weighting_function
          ELSE registry' = registry]_vars
    /\ [][(pc # "loaded" /\ pc' = "loaded") => registry' = LoadedRegistry]_vars
    /\ [](pc = "loaded" =>
            /\ Len(registry) >= 2
            /\ SubSeq(registry, 1, 2) = <<"max_change", "max_rel_change">>)

\* a weighting function was called after two more registrations
C8_Witness ==
    /\ pc = "loaded" /\ fn = "max_rel_change"
    /\ registry = <<"max_change", "max_rel_change", "user_weighting", "max_change">>

\* C9: zero_norm raises for a constant array and never returns a non-finite value.
C9_RejectsConstant ==
    (pc = "return" /\ fn = "zero_norm") =>
        /\ ~NonConstant(args.arr) => (raised # "" /\ ret = <<>>)
        /\ \A i \in 1..Len(ret) : IsFinite(ret[i])

Composition ==
    CASE fn = "power_law_cusp" ->
           LET h == power_law_zero_cusp(args.L, args.b, args.zn, args.startpt, args.endpt)
           IN  VAdd(h, Reverse(h))
      [] fn = "power_cusp" ->
           LET h == power_zero_cusp(args.L, args.b, args.zn, args.startpt, args.endpt)
           IN  VAdd(h, Reverse(h))
      [] fn = "exp_cusp" ->
           LET h == exp_zero_cusp(args.L, args.a, args.zn, args.startpt, args.endpt)
           IN  VAdd(h, Reverse(h))
      [] fn = "pitchfork" ->
           LET h == power_zero_cusp(args.L, 2 * args.b, args.zn, args.startpt, args.endpt)
               c == power_cusp(args.L, args.b, args.zn, args.startpt, args.endpt)
           IN  VAdd(VAdd(Reverse(h), c), h)

\* C10: a composed kernel equals its own reversal, kernel[i] == kernel[L-1-i],
\* with zn=True and with zn=False, and before the outer zero_norm it is the sum
\* of the half-cusp results and their reversed copies.
C10_Symmetric ==
    (pc = "return" /\ fn \in ComposedNames) =>
        /\ \A i \in 1..args.L : FEq(ret[i], ret[args.L + 1 - i])
        /\ res = Composition

====
